---- MODULE Spec2Model ----
(***************************************************************************)
(* Model of backend/server.py: the property search path (cache, store      *)
(* query, fallback generator, background refresh) and the like / contact   *)
(* endpoints.                                                              *)
(*                                                                         *)
(* Conventions.                                                            *)
(*  - Geography is projected on a line through the downtown anchor         *)
(*    (37.6176, 55.7558); a coordinate is a signed number of metres east   *)
(*    of it and geodesic distance is the absolute difference.              *)
(*  - radius_km is held in tenths of a kilometre (5 is 0.5 km); distances  *)
(*    are held in metres; distance_to_center is held in hundredths of a    *)
(*    kilometre, which is what round(distance, 2) keeps.                   *)
(*  - Optional[X] is <<>> for None and <<x>> for a value x.                *)
(*  - A handler is cut at its awaits on the store: each action is the code *)
(*    that runs between two suspension points.                             *)
(***************************************************************************)
EXTENDS Integers, Sequences, FiniteSets

VARIABLES
    now,             \* time.time(), in seconds
    ticks,           \* number of clock advances so far
    property_cache,  \* property_cache: cache key -> [properties, timestamp]
    properties,      \* mongodb.properties: set of documents
    metro_stations,  \* mongodb.metro_stations: set of documents
    searches,        \* search requests and the background task each one added
    likes,           \* number of like requests so far
    loads,           \* number of runs of load_moscow_metro_stations so far
    resp             \* response sent by the step just taken (or none)

vars ==
    <<now, ticks, property_cache, properties, metro_stations, searches, likes,
      loads, resp>>

-----------------------------------------------------------------------------
(* Bounds of the model *)

MaxTicks ==
    2

MaxSearches ==
    2

MaxLikes ==
    1

\* how many entries of the generated mock list are kept (the code builds 13)
MaxMock ==
    3

MaxLoads ==
    3

-----------------------------------------------------------------------------
(* Program constants *)

cache_ttl ==
    1800

QueryLimit ==
    50

STATIONS_SCRAPED ==
    5

PER_STATION ==
    2

Null ==
    <<>>

Some(x) ==
    <<x>>

MOSCOW_METRO_STATIONS ==
    << [name |-> "ru:Sokolniki",      name_en |-> "Sokolniki",               coordinates |-> 5337],
       [name |-> "ru:Krasnoselskaya", name_en |-> "Krasnoselskaya",          coordinates |-> 4010],
       [name |-> "ru:Komsomolskaya",  name_en |-> "Komsomolskaya",           coordinates |-> 3095],
       [name |-> "ru:KrasnyeVorota",  name_en |-> "Krasnye Vorota",          coordinates |-> 2377],
       [name |-> "ru:ChistyePrudy",   name_en |-> "Chistye Prudy",           coordinates |-> 1642],
       [name |-> "ru:Lubyanka",       name_en |-> "Lubyanka",                coordinates |-> 711],
       [name |-> "ru:OkhotnyRyad",    name_en |-> "Okhotny Ryad",            coordinates |-> -212],
       [name |-> "ru:BibliotekaLenina", name_en |-> "Biblioteka imeni Lenina", coordinates |-> -636],
       [name |-> "ru:Kropotkinskaya", name_en |-> "Kropotkinskaya",          coordinates |-> -1437],
       [name |-> "ru:ParkKultury",    name_en |-> "Park Kultury",            coordinates |-> -2711],
       [name |-> "ru:Novokuznetskaya", name_en |-> "Novokuznetskaya",        coordinates |-> 1645],
       [name |-> "ru:Tretyakovskaya", name_en |-> "Tretyakovskaya",          coordinates |-> 1756],
       [name |-> "ru:Teatralnaya",    name_en |-> "Teatralnaya",             coordinates |-> 300],
       [name |-> "ru:Tverskaya",      name_en |-> "Tverskaya",               coordinates |-> -1451],
       [name |-> "ru:Mayakovskaya",   name_en |-> "Mayakovskaya",            coordinates |-> -2049] >>

\* the three literal entries of mock_properties
MOCK_BASE ==
    << [source_url |-> "cian/123456", coordinates |-> 0,    price |-> 85000,
        rooms |-> 2, contact_info |-> "+7 (495) 123-45-67"],
       [source_url |-> "cian/789012", coordinates |-> -167, price |-> 55000,
        rooms |-> 1, contact_info |-> "+7 (495) 987-65-43"],
       [source_url |-> "cian/345678", coordinates |-> 287,  price |-> 120000,
        rooms |-> 3, contact_info |-> "+7 (495) 555-77-88"] >>

-----------------------------------------------------------------------------
(* Values the random draws and the requests are taken from *)

\* random.uniform(-0.01, 0.01) degrees, as metres on the line
JitterWide ==
    {-600, 600}

\* random.uniform(-0.005, 0.005) degrees
JitterTight ==
    {-300, 300}

\* random.randint(40000, 150000)
RandPrices ==
    {40000}

\* random.randint(1, 3)
RandRooms ==
    {1}

\* f"+7 (495) {randint}-{randint}-{randint}"
RandContacts ==
    {"+7 (495) 100-10-10"}

\* f"https://www.cian.ru/rent/flat/{random.randint(100000, 999999)}/"
RandUrls ==
    {"cian/100000", "cian/999999"}

ALL_URLS ==
    <<"cian/123456", "cian/789012", "cian/345678", "cian/100000", "cian/999999">>

Users ==
    {123456789, 987654321}

Filter(center, radius_km) ==
    [center |-> center, radius_km |-> radius_km, property_type |-> Null,
     min_price |-> Null, max_price |-> Null, rooms |-> Null]

\* bodies of POST /api/properties/search
PostFilters ==
    { Filter(0, 5), Filter(100000, 20) }

\* a body that names the room counts wanted, as the list it gives them in
RoomsFilter(center, radius_km, rooms) ==
    [Filter(center, radius_km) EXCEPT !.rooms = Some(rooms)]

\* bodies of POST /api/properties/search with and without room counts
RoomsFilters ==
    { Filter(0, 5), RoomsFilter(0, 5, <<1, 2>>), RoomsFilter(0, 5, <<2, 1>>),
      RoomsFilter(0, 5, <<3>>) }

\* query parameters of GET /api/properties/near-metro
MetroNames ==
    {"ru:Teatralnaya", "Teatralnaya", "NonExistentStation"}

MetroRadii ==
    {5}

TickSteps ==
    {900}

-----------------------------------------------------------------------------
(* Pure functions *)

Abs(x) ==
    IF x < 0 THEN -x ELSE x

Min(a, b) ==
    IF a <= b THEN a ELSE b

\* geodesic(a, b): metres between two points of the line
Dist(a, b) ==
    Abs(a - b)

\* round(distance, 2) of a distance in km: hundredths of a km, ties to even
Round2(d) ==
    LET q == d \div 10
        r == d % 10
    IN  IF r < 5 THEN q
        ELSE IF r > 5 THEN q + 1
        ELSE IF q % 2 = 0 THEN q ELSE q + 1

\* filters.radius_km * 1000: the radius in metres
RadiusMetres(radius_km) ==
    radius_km * 100

\* json.dumps(filters, sort_keys=True): the fields in key order
JsonDumpsSorted(filters) ==
    <<filters.center, filters.max_price, filters.min_price,
      filters.property_type, filters.radius_km, filters.rooms>>

\* md5 of f"{center}_{radius}_{json}"; the digest is taken to be injective
get_cache_key(center, radius, filters) ==
    <<center, radius, JsonDumpsSorted(filters)>>

CacheFreshStale(timestamp, t) ==
    t - timestamp <= cache_ttl

\* time.time() - cached_data['timestamp'] < cache_ttl
CacheFresh(timestamp, t) ==
    t - timestamp < cache_ttl

\* cache_key in property_cache and the entry is fresh
CacheHit(key, t) ==
    /\ key \in DOMAIN property_cache
    /\ CacheFresh(property_cache[key].timestamp, t)

\* number of entries of the mock list that are modelled
MockCount ==
    Min(MaxMock, Len(MOCK_BASE) + STATIONS_SCRAPED * PER_STATION)

\* the station the i-th entry of the mock list is generated around
MockStation(i) ==
    MOSCOW_METRO_STATIONS[((i - Len(MOCK_BASE) - 1) \div PER_STATION) + 1]

\* the values the i-th entry of mock_properties can take
MockProperty(i) ==
    IF i <= Len(MOCK_BASE)
    THEN { [source_url |-> MOCK_BASE[i].source_url,
            coordinates |-> MOCK_BASE[i].coordinates + j,
            price |-> MOCK_BASE[i].price,
            rooms |-> MOCK_BASE[i].rooms,
            contact_info |-> MOCK_BASE[i].contact_info] : j \in JitterWide }
    ELSE { [source_url |-> x[1],
            coordinates |-> MockStation(i).coordinates + x[2],
            price |-> x[3],
            rooms |-> x[4],
            contact_info |-> x[5]] :
           x \in RandUrls \X JitterTight \X RandPrices \X RandRooms \X RandContacts }

WithinRadiusOff(distance, radius_km) ==
    TRUE

WithinRadiusMetres(distance, radius_km) ==
    distance <= radius_km * 1000

\* distance <= filters.radius_km
WithinRadius(distance, radius_km) ==
    distance <= RadiusMetres(radius_km)

\* the dict the fallback loop appends for a generated entry
FallbackListing(prop, filters, sid) ==
    [id |-> Null,
     source_url |-> prop.source_url,
     coordinates |-> prop.coordinates,
     price |-> prop.price,
     rooms |-> prop.rooms,
     contact_info |-> prop.contact_info,
     distance_to_center |-> Round2(Dist(filters.center, prop.coordinates)),
     origin |-> <<"sync", sid>>]

\* scrape_cian_properties followed by the loop over its list, from entry i
\* on: each outcome pairs the coordinates of the generated entries with the
\* list the loop builds, an entry farther than the radius adding nothing
RECURSIVE FallbackLoop(_, _, _)
FallbackLoop(i, filters, sid) ==
    IF i > MockCount THEN {[generated |-> <<>>, body |-> <<>>]}
    ELSE { [generated |-> <<p.coordinates>> \o t.generated,
            body |-> IF WithinRadius(Dist(filters.center, p.coordinates),
                                     filters.radius_km)
                     THEN <<FallbackListing(p, filters, sid)>> \o t.body
                     ELSE t.body] :
           p \in MockProperty(i), t \in FallbackLoop(i + 1, filters, sid) }

\* the store-side predicates of the query
QueryMatches(doc, filters) ==
    /\ Dist(filters.center, doc.coordinates) <= RadiusMetres(filters.radius_km)
    /\ filters.min_price = Null \/ doc.price >= filters.min_price[1]
    /\ filters.max_price = Null \/ doc.price <= filters.max_price[1]
    /\ \/ filters.rooms = Null
       \/ filters.rooms[1] = <<>>
       \/ \E k \in 1..Len(filters.rooms[1]) : filters.rooms[1][k] = doc.rooms
    /\ filters.property_type = Null \/ doc.property_type = filters.property_type

\* $near: nearest first
RECURSIVE NearSorted(_, _)
NearSorted(docs, center) ==
    IF docs = {} THEN <<>>
    ELSE LET m == CHOOSE d \in docs :
                    \A e \in docs :
                        Dist(center, d.coordinates) <= Dist(center, e.coordinates)
         IN  <<m>> \o NearSorted(docs \ {m}, center)

\* the document as the search returns it, with distance_to_center attached
StoreListing(doc, filters) ==
    [id |-> doc.id,
     source_url |-> doc.source_url,
     coordinates |-> doc.coordinates,
     price |-> doc.price,
     rooms |-> doc.rooms,
     contact_info |-> doc.contact_info,
     distance_to_center |-> Round2(Dist(filters.center, doc.coordinates)),
     origin |-> doc.origin]

\* mongodb.properties.find(query).limit(50) and the loop over the cursor
StoreQuery(filters) ==
    LET found == NearSorted({d \in properties : QueryMatches(d, filters)}, filters.center)
        n == Min(Len(found), QueryLimit)
    IN  [k \in 1..n |-> StoreListing(found[k], filters)]

\* PropertyListing(...).dict(): id and liked_by take their defaults
PropertyListingDict(prop, sid, i) ==
    [id |-> <<sid, i>>,
     source_url |-> prop.source_url,
     coordinates |-> prop.coordinates,
     price |-> prop.price,
     rooms |-> prop.rooms,
     property_type |-> Null,
     contact_info |-> prop.contact_info,
     liked_by |-> {},
     origin |-> <<"bg", sid>>]

\* the stored document: the fields of listing under the _id oid
Document(listing, oid) ==
    [f \in DOMAIN listing \cup {"oid"} |-> IF f = "oid" THEN oid ELSE listing[f]]

UpsertAlwaysInsert(docs, listing, oid) ==
    docs \cup {Document(listing, oid)}

\* update_one({"source_url": ...}, {"$set": listing}, upsert=True), applied by
\* the store as one operation; oid is the _id an inserted document gets
UpdateOneUpsert(docs, listing, oid) ==
    IF \E d \in docs : d.source_url = listing.source_url
    THEN LET old == CHOOSE d \in docs : d.source_url = listing.source_url
         IN  (docs \ {old}) \cup {Document(listing, old.oid)}
    ELSE docs \cup {Document(listing, oid)}

\* update_one({"id": property_id}, {"$addToSet": {"liked_by": telegram_id}})
\* on a collection that holds a match
AddToSet(docs, property_id, telegram_id) ==
    LET old == CHOOSE d \in docs : d.id = property_id
    IN  (docs \ {old}) \cup {[old EXCEPT !.liked_by = @ \cup {telegram_id}]}

MayDiscloseAnyone(doc, telegram_id) ==
    TRUE

\* the negation of "telegram_id not in property_doc.get('liked_by', [])"
MayDisclose(doc, telegram_id) ==
    telegram_id \in doc.liked_by

FindStationNearest(station_name) ==
    IF \E st \in metro_stations : st.name = station_name
    THEN {CHOOSE st \in metro_stations : st.name = station_name}
    ELSE IF \E st \in metro_stations : st.name_en = station_name
    THEN {CHOOSE st \in metro_stations : st.name_en = station_name}
    ELSE IF metro_stations # {}
    THEN {CHOOSE st \in metro_stations : TRUE}
    ELSE {}

\* find_one({"name": ...}) and then find_one({"name_en": ...})
FindStation(station_name) ==
    IF \E st \in metro_stations : st.name = station_name
    THEN {CHOOSE st \in metro_stations : st.name = station_name}
    ELSE IF \E st \in metro_stations : st.name_en = station_name
    THEN {CHOOSE st \in metro_stations : st.name_en = station_name}
    ELSE {}

\* the place of a source_url in the list of urls
UrlNo(source_url) ==
    CHOOSE k \in 1..Len(ALL_URLS) : ALL_URLS[k] = source_url

\* the property id the test client keeps of a returned listing: its id, or an
\* id derived from the md5 of its source_url when it has none
ClientPropertyId(listing) ==
    IF listing.id # Null THEN listing.id ELSE <<0, UrlNo(listing.source_url)>>

-----------------------------------------------------------------------------
(* State *)

NoResp ==
    [op |-> "none"]

\* an entry of searches: the request, where its handler stands (pc), what the
\* cache lookup found (lookup: "fresh", "stale" or "absent"), the entry it put
\* in the cache (put) and the background task it added (task, and the mock
\* entry i the task upserts next)
SearchRec(filters, route, pc, lookup) ==
    [filters |-> filters, route |-> route, pc |-> pc, lookup |-> lookup,
     put |-> Null, task |-> "none", i |-> 0]

KeyOf(filters) ==
    get_cache_key(filters.center, filters.radius_km, filters)

CachePutMerge(cache, key, props, t) ==
    [k \in DOMAIN cache \cup {key} |->
        IF k # key THEN cache[k]
        ELSE IF key \in DOMAIN cache
        THEN [properties |-> cache[key].properties \o props,
              timestamp |-> cache[key].timestamp]
        ELSE [properties |-> props, timestamp |-> t]]

CachePutIfAbsent(cache, key, props, t) ==
    [k \in DOMAIN cache \cup {key} |->
        IF k \in DOMAIN cache THEN cache[k] ELSE [properties |-> props, timestamp |-> t]]

\* property_cache[cache_key] = {'properties': ..., 'timestamp': time.time()}
CachePut(cache, key, props, t) ==
    [k \in DOMAIN cache \cup {key} |->
        IF k = key THEN [properties |-> props, timestamp |-> t] ELSE cache[k]]

\* the documents a run of load_moscow_metro_stations builds: MetroStation(...)
\* .dict() of every entry, the ids being fresh uuids of that run
StationDocs(run) ==
    { [id |-> <<run, k>>,
       name |-> MOSCOW_METRO_STATIONS[k].name,
       name_en |-> MOSCOW_METRO_STATIONS[k].name_en,
       coordinates |-> MOSCOW_METRO_STATIONS[k].coordinates] :
      k \in 1..Len(MOSCOW_METRO_STATIONS) }

LoadStationsAgain(docs, run) ==
    docs \cup StationDocs(run)

\* load_moscow_metro_stations: nothing is inserted into a collection that
\* count_documents finds non-empty
LoadStations(docs, run) ==
    IF Cardinality(docs) > 0 THEN docs ELSE docs \cup StationDocs(run)

\* startup_db_client on an empty database: the first load has run
LoadedStations ==
    LoadStations({}, 1)

Init ==
    /\ now = 0
    /\ ticks = 0
    /\ property_cache = <<>>
    /\ properties = {}
    /\ metro_stations = LoadedStations
    /\ searches = <<>>
    /\ likes = 0
    /\ loads = 1
    /\ resp = NoResp

\* the database is empty and startup_db_client has not yet loaded the stations
InitLoad ==
    /\ now = 0
    /\ ticks = 0
    /\ property_cache = <<>>
    /\ properties = {}
    /\ metro_stations = {}
    /\ searches = <<>>
    /\ likes = 0
    /\ loads = 0
    /\ resp = NoResp

-----------------------------------------------------------------------------
(* The metro stations *)

\* a run of load_moscow_metro_stations, awaited to its end by its caller
load_moscow_metro_stations ==
    /\ loads < MaxLoads
    /\ loads' = loads + 1
    /\ metro_stations' = LoadStations(metro_stations, loads + 1)
    /\ resp' = NoResp
    /\ UNCHANGED <<now, ticks, property_cache, properties, searches, likes>>

\* GET /api/metro-stations: every document of the collection
get_metro_stations ==
    /\ resp' = [op |-> "metro-stations", status |-> 200, body |-> metro_stations]
    /\ UNCHANGED <<now, ticks, property_cache, properties, metro_stations, searches,
                   likes, loads>>

-----------------------------------------------------------------------------
(* The clock *)

Tick(d) ==
    /\ ticks < MaxTicks
    /\ now' = now + d
    /\ ticks' = ticks + 1
    /\ resp' = NoResp
    /\ UNCHANGED <<property_cache, properties, metro_stations, searches, likes, loads>>

-----------------------------------------------------------------------------
(* search_properties *)

\* what the search handler sends: the status and the list, with the request
\* (sid, route, key), the branch that built the list (path) and, on the
\* fallback branch, what the generator did (scrape_failed, generated)
SearchResp(sid, route, key, status, path, body) ==
    [op |-> "search", sid |-> sid, route |-> route, key |-> key,
     status |-> status, path |-> path, body |-> body,
     scrape_failed |-> FALSE, generated |-> <<>>]

SearchHitRenew(sid, filters, route, key) ==
    /\ searches' = Append(searches, SearchRec(filters, route, "done", "fresh"))
    /\ resp' = SearchResp(sid, route, key, 200, "hit", property_cache[key].properties)
    /\ property_cache' = CachePut(property_cache, key, property_cache[key].properties, now)
    /\ UNCHANGED <<now, ticks, properties, metro_stations, likes, loads>>

\* the cache holds a fresh entry: return cached_data['properties']
SearchHit(sid, filters, route, key) ==
    /\ searches' = Append(searches, SearchRec(filters, route, "done", "fresh"))
    /\ resp' = SearchResp(sid, route, key, 200, "hit", property_cache[key].properties)
    /\ UNCHANGED <<now, ticks, property_cache, properties, metro_stations, likes, loads>>

\* no fresh entry: build the query and await the cursor
SearchMiss(sid, filters, route, key) ==
    /\ searches' = Append(searches,
            SearchRec(filters, route, "query",
                      IF key \in DOMAIN property_cache THEN "stale" ELSE "absent"))
    /\ resp' = NoResp
    /\ UNCHANGED <<now, ticks, property_cache, properties, metro_stations, likes, loads>>

\* search_properties up to its first await
SearchBegin(filters, route) ==
    LET sid == Len(searches) + 1
        key == KeyOf(filters)
    IN  /\ Len(searches) < MaxSearches
        /\ IF CacheHit(key, now)
           THEN SearchHit(sid, filters, route, key)
           ELSE SearchMiss(sid, filters, route, key)

\* POST /api/properties/search
SearchPost(filters) ==
    SearchBegin(filters, "post")

\* GET /api/properties/near-metro: the station lookup, then search_properties
\* with a BackgroundTasks object of its own
NearMetro(station_name, radius_km) ==
    LET found == FindStation(station_name)
    IN  IF found = {}
        THEN /\ resp' = [op |-> "near-metro", status |-> 404, station_name |-> station_name]
             /\ UNCHANGED <<now, ticks, property_cache, properties, metro_stations,
                            searches, likes, loads>>
        ELSE \E st \in found : SearchBegin(Filter(st.coordinates, radius_km), "metro")

\* background_tasks.add_task: the injected BackgroundTasks of the POST route is
\* run once the response is sent; the BackgroundTasks() near-metro passes in
\* belongs to no response and nothing runs it
TaskOf(route) ==
    IF route = "post" THEN "pending" ELSE "orphan"

\* what scrape_cian_properties and the loop over its list leave in properties:
\* a filtered list, or [] when the generator raised and returned []
FallbackOutcomes(filters, sid) ==
    { [scrape_failed |-> FALSE, generated |-> o.generated, body |-> o.body] :
        o \in FallbackLoop(1, filters, sid) }
        \cup {[scrape_failed |-> TRUE, generated |-> <<>>, body |-> <<>>]}

NothingFoundAlways(found) ==
    TRUE

\* if not properties
NothingFound(found) ==
    found = <<>>

\* the cursor delivered its documents: the rest of search_properties
SearchQueryDone(sid) ==
    LET s == searches[sid]
        key == KeyOf(s.filters)
        found == StoreQuery(s.filters)
    IN  /\ s.pc = "query"
        /\ IF ~ NothingFound(found)
           THEN /\ searches' = [searches EXCEPT ![sid].pc = "done",
                                                ![sid].put = Some(CachePut(<<>>, key, found, now)[key])]
                /\ property_cache' = CachePut(property_cache, key, found, now)
                /\ resp' = SearchResp(sid, s.route, key, 200, "store", found)
           ELSE \E out \in FallbackOutcomes(s.filters, sid) :
                /\ searches' = [searches EXCEPT ![sid].pc = "done",
                                                ![sid].put = Some(CachePut(<<>>, key, out.body, now)[key]),
                                                ![sid].task = TaskOf(s.route)]
                /\ property_cache' = CachePut(property_cache, key, out.body, now)
                /\ resp' = [SearchResp(sid, s.route, key, 200, "fallback", out.body)
                               EXCEPT !.scrape_failed = out.scrape_failed,
                                      !.generated = out.generated]
        /\ UNCHANGED <<now, ticks, properties, metro_stations, likes, loads>>

SearchQueryFailCaches(sid) ==
    LET s == searches[sid]
    IN  /\ s.pc = "query"
        /\ searches' = [searches EXCEPT ![sid].pc = "done"]
        /\ property_cache' = CachePut(property_cache, KeyOf(s.filters), <<>>, now)
        /\ resp' = SearchResp(sid, s.route, KeyOf(s.filters), 500, "error", <<>>)
        /\ UNCHANGED <<now, ticks, properties, metro_stations, likes, loads>>

SearchQueryFailEmpty(sid) ==
    LET s == searches[sid]
    IN  /\ s.pc = "query"
        /\ searches' = [searches EXCEPT ![sid].pc = "done"]
        /\ resp' = SearchResp(sid, s.route, KeyOf(s.filters), 200, "error", <<>>)
        /\ UNCHANGED <<now, ticks, property_cache, properties, metro_stations, likes, loads>>

\* the store query (or the distance computation of the cursor loop) raised:
\* except Exception -> HTTPException(500)
SearchQueryFail(sid) ==
    LET s == searches[sid]
    IN  /\ s.pc = "query"
        /\ searches' = [searches EXCEPT ![sid].pc = "done"]
        /\ resp' = SearchResp(sid, s.route, KeyOf(s.filters), 500, "error", <<>>)
        /\ UNCHANGED <<now, ticks, property_cache, properties, metro_stations, likes, loads>>

-----------------------------------------------------------------------------
(* scrape_and_store_properties, the background task *)

\* the task starts once the response is out: scrape_cian_properties, then the
\* first update_one is awaited; a generator that raised returned [] and the
\* task ends having stored nothing
BgStart(sid) ==
    /\ searches[sid].pc = "done"
    /\ searches[sid].task = "pending"
    /\ \/ searches' = [searches EXCEPT ![sid].task = "upsert", ![sid].i = 1]
       \/ searches' = [searches EXCEPT ![sid].task = "done"]
    /\ resp' = NoResp
    /\ UNCHANGED <<now, ticks, property_cache, properties, metro_stations, likes, loads>>

\* the store applies the update_one of entry i and the loop goes on; the random
\* values of the entry are drawn here, which is the same as drawing them when
\* the list was built, nothing else reading the list
BgUpsert(sid) ==
    LET s == searches[sid]
    IN  /\ s.task = "upsert"
        /\ \E p \in MockProperty(s.i) :
             properties' = UpdateOneUpsert(properties,
                                           PropertyListingDict(p, sid, s.i), <<sid, s.i>>)
        /\ searches' = IF s.i = MockCount
                       THEN [searches EXCEPT ![sid].task = "done"]
                       ELSE [searches EXCEPT ![sid].i = s.i + 1]
        /\ resp' = NoResp
        /\ UNCHANGED <<now, ticks, property_cache, metro_stations, likes, loads>>

\* update_one raised: the error is printed and the task ends
BgUpsertFail(sid) ==
    /\ searches[sid].task = "upsert"
    /\ searches' = [searches EXCEPT ![sid].task = "failed"]
    /\ resp' = NoResp
    /\ UNCHANGED <<now, ticks, property_cache, properties, metro_stations, likes, loads>>

-----------------------------------------------------------------------------
(* like_property and get_property_contact *)

\* the listings search responses have carried that may still be shown to a
\* client: those of the response just sent and those of the cache entries
ReturnedListings ==
    UNION { { property_cache[k].properties[n] :
                n \in 1..Len(property_cache[k].properties) } :
            k \in DOMAIN property_cache }

StoredIds ==
    { d.id : d \in properties }

\* property ids a client can put in a request: ids of stored listings, the
\* ids clients keep of returned listings, and an id no listing has
RequestIds ==
    StoredIds
        \cup { ClientPropertyId(l) : l \in ReturnedListings }
        \cup { <<0, 0>> }

\* POST /api/properties/{property_id}/like
like_property(property_id, telegram_id) ==
    /\ likes < MaxLikes
    /\ likes' = likes + 1
    /\ IF \E d \in properties : d.id = property_id
       THEN /\ properties' = AddToSet(properties, property_id, telegram_id)
            /\ resp' = [op |-> "like", status |-> 200,
                        property_id |-> property_id, telegram_id |-> telegram_id]
       ELSE /\ properties' = properties
            /\ resp' = [op |-> "like", status |-> 404,
                        property_id |-> property_id, telegram_id |-> telegram_id]
    /\ UNCHANGED <<now, ticks, property_cache, metro_stations, searches, loads>>

\* GET /api/properties/{property_id}/contact
get_property_contact(property_id, telegram_id) ==
    /\ IF ~ \E d \in properties : d.id = property_id
       THEN resp' = [op |-> "contact", status |-> 404, property_id |-> property_id,
                     telegram_id |-> telegram_id, disclosed |-> Null]
       ELSE LET doc == CHOOSE d \in properties : d.id = property_id
            IN  IF MayDisclose(doc, telegram_id)
                THEN resp' = [op |-> "contact", status |-> 200,
                              property_id |-> property_id, telegram_id |-> telegram_id,
                              disclosed |-> Some(<<doc.contact_info, doc.source_url>>)]
                ELSE resp' = [op |-> "contact", status |-> 403,
                              property_id |-> property_id, telegram_id |-> telegram_id,
                              disclosed |-> Null]
    /\ UNCHANGED <<now, ticks, property_cache, properties, metro_stations, searches, likes, loads>>

-----------------------------------------------------------------------------
(* Specifications *)

\* the search path: clock, the two search routes and the background task
Next ==
    \/ \E d \in TickSteps : Tick(d)
    \/ \E f \in PostFilters : SearchPost(f)
    \/ \E n \in MetroNames, r \in MetroRadii : NearMetro(n, r)
    \/ \E sid \in 1..Len(searches) : SearchQueryDone(sid)
    \/ \E sid \in 1..Len(searches) : SearchQueryFail(sid)
    \/ \E sid \in 1..Len(searches) : BgStart(sid)
    \/ \E sid \in 1..Len(searches) : BgUpsert(sid)
    \/ \E sid \in 1..Len(searches) : BgUpsertFail(sid)

Spec ==
    Init /\ [][Next]_vars

\* POST searches, their background tasks, likes and contact requests, the
\* clock standing and the store answering every call
NextLike ==
    \/ \E f \in PostFilters : SearchPost(f)
    \/ \E sid \in 1..Len(searches) : SearchQueryDone(sid)
    \/ \E sid \in 1..Len(searches) : BgStart(sid)
    \/ \E sid \in 1..Len(searches) : BgUpsert(sid)
    \/ \E pid \in RequestIds, u \in Users : like_property(pid, u)
    \/ \E pid \in StoredIds \cup {<<0, 0>>}, u \in Users : get_property_contact(pid, u)

LikeSpec ==
    Init /\ [][NextLike]_vars

\* searches and background tasks
NextFair ==
    \/ \E f \in PostFilters : SearchPost(f)
    \/ \E n \in MetroNames, r \in MetroRadii : NearMetro(n, r)
    \/ \E sid \in 1..Len(searches) : SearchQueryDone(sid)
    \/ \E sid \in 1..Len(searches) : SearchQueryFail(sid)
    \/ \E sid \in 1..Len(searches) : BgStart(sid)
    \/ \E sid \in 1..Len(searches) : BgUpsert(sid)
    \/ \E sid \in 1..Len(searches) : BgUpsertFail(sid)

\* the event loop runs every task that can run: a started handler gets its
\* store answer, a task of a sent response is started, an awaited update_one
\* returns or raises
FairSpec ==
    /\ Init
    /\ [][NextFair]_vars
    /\ \A sid \in 1..MaxSearches :
         /\ WF_vars(sid <= Len(searches) /\ (SearchQueryDone(sid) \/ SearchQueryFail(sid)))
         /\ WF_vars(sid <= Len(searches) /\ BgStart(sid))
         /\ WF_vars(sid <= Len(searches) /\ (BgUpsert(sid) \/ BgUpsertFail(sid)))

\* the station collection: loads, and once the first load is done the requests
\* that read the collection
NextLoad ==
    \/ load_moscow_metro_stations
    \/ loads > 0 /\ get_metro_stations
    \/ loads > 0 /\ \E n \in MetroNames, r \in MetroRadii : NearMetro(n, r)
    \/ \E sid \in 1..Len(searches) : SearchQueryDone(sid)

LoadSpec ==
    InitLoad /\ [][NextLoad]_vars

\* POST searches that name room counts, and their background tasks
NextRooms ==
    \/ \E f \in RoomsFilters : SearchPost(f)
    \/ \E sid \in 1..Len(searches) : SearchQueryDone(sid)
    \/ \E sid \in 1..Len(searches) : BgStart(sid)
    \/ \E sid \in 1..Len(searches) : BgUpsert(sid)

RoomsSpec ==
    Init /\ [][NextRooms]_vars

-----------------------------------------------------------------------------
(* Claims *)

SearchIds ==
    1..MaxSearches

\* C1: a search never returns a cache entry that is cache_ttl seconds old or
\* older: a hit returns the list of an entry whose age, counted from the time
\* it was put, is under 1800 s, a search that found an older entry went on to
\* the store query, and a hit leaves the timestamp of the entry as it was.
C1_StaleNeverServed ==
    /\ []((resp.op = "search" /\ resp.path = "hit") =>
            /\ resp.key \in DOMAIN property_cache
            /\ now - property_cache[resp.key].timestamp < 1800
            /\ resp.body = property_cache[resp.key].properties)
    /\ [][/\ (resp'.op = "search" /\ resp'.path = "hit") =>
                property_cache'[resp'.key].timestamp
                    = property_cache[resp'.key].timestamp
          /\ Len(searches') = Len(searches) + 1 =>
                LET s == searches'[Len(searches')]
                    k == KeyOf(s.filters)
                IN  (/\ k \in DOMAIN property_cache
                     /\ now - property_cache[k].timestamp >= 1800)
                        => s.pc = "query" /\ resp'.op # "search"]_vars

\* a search met an entry that had reached the TTL and went on as a miss
C1_Witness ==
    \E sid \in SearchIds :
        /\ sid <= Len(searches)
        /\ searches[sid].lookup = "stale"
        /\ searches[sid].pc = "query"
        /\ now - property_cache[KeyOf(searches[sid].filters)].timestamp = 1800

C3_ContactOnlyForLikers ==
    resp.op = "contact" =>
        LET docs == {d \in properties : d.id = resp.property_id}
        IN  /\ docs = {} => resp.status = 404 /\ resp.disclosed = Null
            /\ \A d \in docs :
                 /\ resp.telegram_id \in d.liked_by =>
                      /\ resp.status = 200
                      /\ resp.disclosed = Some(<<d.contact_info, d.source_url>>)
                 /\ resp.telegram_id \notin d.liked_by =>
                      /\ resp.status = 403
                      /\ resp.disclosed = Null

\* a listing somebody liked is asked for by somebody else, and refused
C3_Witness ==
    /\ resp.op = "contact"
    /\ resp.status = 403
    /\ \E d \in properties :
         /\ d.id = resp.property_id
         /\ d.liked_by # {}
         /\ resp.telegram_id \notin d.liked_by

\* C4 (as claimed): the background task a search added, on either route, in the
\* end has run to completion or to a logged failure.
C4_RefreshRuns ==
    \A sid \in SearchIds :
        (sid <= Len(searches) /\ searches[sid].task \in {"pending", "orphan"})
            ~> (sid <= Len(searches) /\ searches[sid].task \in {"done", "failed"})

C6_FallbackNonEmpty ==
    (resp.op = "search" /\ resp.path = "fallback" /\ ~ resp.scrape_failed)
        => resp.body # <<>>

\* C6 (amended): a search that got nothing from the store, its generator not
\* failing, returns a non-empty list exactly when some generated listing lies
\* within radius_km of the center.
C6_NonEmptyIffGeneratedNear ==
    (resp.op = "search" /\ resp.path = "fallback") =>
        LET f == searches[resp.sid].filters
        IN  /\ resp.scrape_failed => resp.body = <<>>
            /\ ~ resp.scrape_failed =>
                 (resp.body # <<>> <=>
                    \E n \in 1..Len(resp.generated) :
                        Abs(f.center - resp.generated[n]) <= f.radius_km * 100)

\* the generator produced its listings, all of them out of the radius, and the
\* search returned an empty list
C6_Witness ==
    /\ resp.op = "search"
    /\ resp.path = "fallback"
    /\ ~ resp.scrape_failed
    /\ resp.generated # <<>>
    /\ resp.body = <<>>

\* C7: every listing of a fallback response comes from the generator call of
\* that search and lies within radius_km of the center, and so does every
\* generated listing of a cache entry, which is what a later hit returns.
C7_FallbackWithinRadius ==
    /\ (resp.op = "search" /\ resp.path = "fallback") =>
         \A n \in 1..Len(resp.body) :
            /\ resp.body[n].origin = <<"sync", resp.sid>>
            /\ Abs(searches[resp.sid].filters.center - resp.body[n].coordinates)
                 <= searches[resp.sid].filters.radius_km * 100
    /\ \A k \in DOMAIN property_cache :
         \A n \in 1..Len(property_cache[k].properties) :
            property_cache[k].properties[n].origin[1] = "sync" =>
                Abs(k[1] - property_cache[k].properties[n].coordinates) <= k[2] * 100
    /\ (resp.op = "search" /\ resp.path = "hit") =>
         resp.body = property_cache[resp.key].properties

\* a hit serves a fallback list from which the radius kept some generated
\* listings and dropped others
C7_Witness ==
    /\ resp.op = "search"
    /\ resp.path = "hit"
    /\ resp.body # <<>>
    /\ Len(resp.body) < MockCount
    /\ \A n \in 1..Len(resp.body) : resp.body[n].origin[1] = "sync"

C9_ReturnedCanBeLiked ==
    (/\ resp.op = "like"
     /\ \E l \in ReturnedListings : ClientPropertyId(l) = resp.property_id)
        => resp.status = 200

\* C10: a search answered from the cache returns the cached list, leaves the
\* cache, the store and the earlier requests as they were, and adds no store
\* query and no background task.
C10_HitHasNoEffect ==
    [][(resp'.op = "search" /\ resp'.path = "hit") =>
          /\ resp'.body = property_cache[resp'.key].properties
          /\ resp'.generated = <<>>
          /\ property_cache' = property_cache
          /\ properties' = properties
          /\ metro_stations' = metro_stations
          /\ Len(searches') = Len(searches) + 1
          /\ \A sid \in 1..Len(searches) : searches'[sid] = searches[sid]
          /\ searches'[resp'.sid].pc = "done"
          /\ searches'[resp'.sid].task = "none"]_vars

\* a search is answered from a cache entry put some time before
C10_Witness ==
    /\ resp.op = "search"
    /\ resp.path = "hit"
    /\ now - property_cache[resp.key].timestamp > 0

\* C11: a search that completes on a miss leaves in the cache, under its key,
\* exactly the list it returns with the time of the put; a search that finds an
\* entry under 1800 s old is answered with the list of that entry; and the list
\* a hit returns is the one an earlier search with the same key put and
\* returned, whatever the store holds by then.
C11_PutThenGet ==
    /\ [][(resp'.op = "search" /\ resp'.path \in {"store", "fallback"}) =>
            /\ resp'.status = 200
            /\ resp'.key \in DOMAIN property_cache'
            /\ property_cache'[resp'.key]
                 = [properties |-> resp'.body, timestamp |-> now']]_vars
    /\ [][Len(searches') = Len(searches) + 1 =>
            LET k == KeyOf(searches'[Len(searches')].filters)
            IN  (/\ k \in DOMAIN property_cache
                 /\ now - property_cache[k].timestamp < 1800)
                    => /\ resp'.op = "search"
                       /\ resp'.status = 200
                       /\ resp'.body = property_cache[k].properties]_vars
    /\ []((resp.op = "search" /\ resp.path = "hit") =>
            \E b \in 1..(resp.sid - 1) :
                /\ KeyOf(searches[b].filters) = KeyOf(searches[resp.sid].filters)
                /\ searches[b].put # Null
                /\ searches[b].put[1] = property_cache[resp.key]
                /\ resp.body = searches[b].put[1].properties)

\* a hit returns the empty list an earlier search cached, although a refresh
\* has since stored listings the same query would find
C11_Witness ==
    /\ resp.op = "search"
    /\ resp.path = "hit"
    /\ resp.body = <<>>
    /\ StoreQuery(searches[resp.sid].filters) # <<>>

\* C12: every cache entry is, whole, the list and the timestamp that one search
\* with that key put, and right after the put of a search the entry of its key
\* is the one that search put, also when several searches with the same key
\* missed and ran at the same time.
C12_LastPutWins ==
    /\ \A k \in DOMAIN property_cache :
         \E sid \in 1..Len(searches) :
            /\ KeyOf(searches[sid].filters) = k
            /\ searches[sid].put # Null
            /\ searches[sid].put[1] = property_cache[k]
    /\ (resp.op = "search" /\ resp.path \in {"store", "fallback"}) =>
         /\ searches[resp.sid].put # Null
         /\ property_cache[resp.key] = searches[resp.sid].put[1]
         /\ property_cache[resp.key].properties = resp.body

\* two searches with the same key both missed, the second starting before the
\* first had put; they built different lists at different times and the entry
\* is that of the one that put last
C12_Witness ==
    \E a \in SearchIds : \E b \in SearchIds :
        /\ a < b
        /\ b <= Len(searches)
        /\ KeyOf(searches[a].filters) = KeyOf(searches[b].filters)
        /\ searches[b].lookup = "absent"
        /\ searches[a].put # Null
        /\ searches[b].put # Null
        /\ searches[a].put[1].properties # searches[b].put[1].properties
        /\ searches[a].put[1].timestamp > searches[b].put[1].timestamp
        /\ property_cache[KeyOf(searches[a].filters)] = searches[a].put[1]

\* C13: a near-metro request whose station_name is neither the name nor the
\* name_en of a stored station is answered 404, and the step that answers it
\* starts no search and leaves the cache, the store and the background tasks
\* as they were; a 404 is sent for no other near-metro request.
C13_UnknownStationNotFound ==
    /\ [][\A n \in MetroNames : \A r \in MetroRadii :
            (/\ NearMetro(n, r)
             /\ \A st \in metro_stations : st.name # n /\ st.name_en # n)
                => /\ resp'.op = "near-metro"
                   /\ resp'.status = 404
                   /\ property_cache' = property_cache
                   /\ searches' = searches
                   /\ properties' = properties]_vars
    /\ [](resp.op = "near-metro" =>
            /\ resp.status = 404
            /\ \A st \in metro_stations :
                 st.name # resp.station_name /\ st.name_en # resp.station_name)

\* an unknown station is asked for while the cache holds an entry and a
\* background task is under way, and is answered 404
C13_Witness ==
    /\ resp.op = "near-metro"
    /\ resp.status = 404
    /\ resp.station_name = "NonExistentStation"
    /\ DOMAIN property_cache # {}
    /\ \E sid \in 1..Len(searches) : searches[sid].task = "upsert"

RoomSet(filters) ==
    IF filters.rooms = Null THEN Null
    ELSE Some({ filters.rooms[1][k] : k \in 1..Len(filters.rooms[1]) })

\* C15 (as claimed): two searches whose filters have the same center, radius,
\* price bounds, property type and set of room counts have the same cache key.
C15_KeyIgnoresOrder ==
    \A a \in 1..Len(searches) : \A b \in 1..Len(searches) :
        LET fa == searches[a].filters
            fb == searches[b].filters
        IN  (/\ fa.center = fb.center
             /\ fa.radius_km = fb.radius_km
             /\ fa.min_price = fb.min_price
             /\ fa.max_price = fb.max_price
             /\ fa.property_type = fb.property_type
             /\ RoomSet(fa) = RoomSet(fb))
                => get_cache_key(fa.center, fa.radius_km, fa)
                     = get_cache_key(fb.center, fb.radius_km, fb)

\* C16: a search that completes on a miss takes the fallback branch, which
\* calls the generator and adds the background task, exactly when its store
\* query found nothing; when the query found documents the response is those
\* documents alone, at most 50, no generated listing among them, and the
\* search has added no background task, then or later.
C16_FallbackIffStoreEmpty ==
    /\ (resp.op = "search" /\ resp.path \in {"store", "fallback"}) =>
         LET s == searches[resp.sid]
             found == StoreQuery(s.filters)
         IN  /\ resp.path = "fallback" <=> found = <<>>
             /\ found # <<>> =>
                  /\ resp.body = found
                  /\ Len(resp.body) <= 50
                  /\ \A n \in 1..Len(resp.body) : resp.body[n].origin[1] = "bg"
                  /\ resp.generated = <<>>
                  /\ ~ resp.scrape_failed
                  /\ s.task = "none"
             /\ found = <<>> =>
                  /\ s.task \in {"pending", "orphan"}
                  /\ \A n \in 1..Len(resp.body) :
                       resp.body[n].origin = <<"sync", resp.sid>>
    /\ \A sid \in 1..Len(searches) :
         (/\ searches[sid].put # Null
          /\ \E n \in 1..Len(searches[sid].put[1].properties) :
                searches[sid].put[1].properties[n].origin[1] = "bg")
            => searches[sid].task = "none"
    /\ \A sid \in 1..Len(searches) :
         searches[sid].task # "none" =>
            /\ searches[sid].put # Null
            /\ \A n \in 1..Len(searches[sid].put[1].properties) :
                 searches[sid].put[1].properties[n].origin = <<"sync", sid>>

\* a search finds in the store what the refresh of an earlier search put
\* there and returns it without adding a task
C16_Witness ==
    /\ resp.op = "search"
    /\ resp.path = "store"
    /\ Len(resp.body) >= 2
    /\ searches[resp.sid].task = "none"
    /\ \E sid \in 1..Len(searches) : searches[sid].task \in {"upsert", "done"}

\* C17: the step in which a search ends in an error changes neither the cache
\* nor the store, and what a search finds at its lookup
\* depends on the cache entry of its key and the clock alone, whatever
\* searches failed before it.
C17_ErrorLeavesCache ==
    /\ [][(resp'.op = "search" /\ resp'.status # 200) =>
            /\ property_cache' = property_cache
            /\ properties' = properties
            /\ searches'[resp'.sid].put = Null
            /\ \A sid \in 1..Len(searches) :
                 sid # resp'.sid => searches'[sid] = searches[sid]]_vars
    /\ [][Len(searches') = Len(searches) + 1 =>
            LET s == searches'[Len(searches')]
                k == KeyOf(s.filters)
            IN  /\ property_cache' = property_cache
                /\ s.lookup = IF k \notin DOMAIN property_cache THEN "absent"
                              ELSE IF now - property_cache[k].timestamp < 1800
                                   THEN "fresh"
                                   ELSE "stale"
                /\ s.lookup = "fresh" <=> (resp'.op = "search" /\ resp'.path = "hit")]_vars

\* a search ends in an error while the cache holds, for its key, the entry
\* another search put after this one had missed; the entry is still there
C17_Witness ==
    /\ resp.op = "search"
    /\ resp.status = 500
    /\ searches[resp.sid].lookup = "absent"
    /\ resp.key \in DOMAIN property_cache
    /\ \E b \in 1..Len(searches) :
         /\ b # resp.sid
         /\ searches[b].put # Null
         /\ searches[b].put[1] = property_cache[resp.key]

====
